---- MODULE Spec2Model ----
(***************************************************************************)
(* Ring-buffer FIFO queues of ufotofu_queues: the Queue trait with its     *)
(* default bulk methods (lib.rs) and its two implementations, the          *)
(* heap-backed Fixed (fixed.rs) and the array-backed Static (static_.rs).  *)
(*                                                                         *)
(* A queue value is a record [kind, data, read, amount]; `kind` selects    *)
(* the trait implementation, the other fields are the struct's fields.     *)
(* Indices are 0-based as in the source; data[i] of the source is          *)
(* data[i + 1] here.                                                       *)
(***************************************************************************)
EXTENDS Integers, Sequences, FiniteSets, TLC

(* ------------------------------ bounds --------------------------------- *)

\* Largest capacity a queue is created with.
MaxCap == 3

\* Longest buffer handed to bulk_enqueue / bulk_dequeue.
MaxBuf == 3

\* The count of wraps of the read cursor saturates here.
MaxWraps == 2

\* The item type T is only ever copied, never inspected (T: Copy), so two
\* distinct items are enough to tell any two positions of the queue apart.
Items == {1, 2}

\* MaybeUninit::uninit(): a slot that was never written.
Uninit == -1

\* The filler of a destination buffer (test_buffer.resize(n, 0_u8)).
Filler == 0

Slot == Items \cup {Uninit}

\* Option<T>
None == <<>>

Some(x) == <<x>>

min(a, b) == IF a < b THEN a ELSE b

\* Sequences over S of length 0..n.
SeqsUpTo(S, n) == UNION {[1..k -> S] : k \in 0..n}

\* A slice data[start..end] is kept as its range, so that writes through it
\* reach the storage; its length and contents are read off the range.
Range(start, end) == [start |-> start, end |-> end]

RangeLen(r) == r.end - r.start

\* Rust's bounds check on data[start..end].
RangeOK(r, n) == r.start <= r.end /\ r.end <= n

SliceOf(data, r) == [i \in 1..RangeLen(r) |-> data[r.start + i]]

\* MaybeUninit::assume_init: reading a slot that was never written is
\* undefined behaviour, any value u may come out.
assume_init(slot, u) == IF slot = Uninit THEN u ELSE slot

\* The width of usize, scaled down from 64 bits: every index and count of
\* the queues is a usize.
UsizeBits == 3

\* usize::MAX
UsizeMax == 2 ^ UsizeBits - 1

\* `a + b` on usize where overflow checks are off: the sum wraps.
wrapping_add(a, b) == (a + b) % (UsizeMax + 1)

\* `a + b` on usize where overflow checks are on panics in this case
\* ("attempt to add with overflow").
add_overflows(a, b) == a + b > UsizeMax

\* The two build profiles: overflow checks on (debug) and off (release).
Builds == {"debug", "release"}

(* ------------------------------- Fixed --------------------------------- *)

Fixed_new(capacity) ==
    [kind |-> "Fixed", data |-> [i \in 1..capacity |-> Uninit], read |-> 0, amount |-> 0]

Fixed_capacity(q) == Len(q.data)

\* Faulty variant: the comparison admits equality.
Fixed_is_data_contiguous_Le(q) == q.read + q.amount <= Len(q.data)

Fixed_is_data_contiguous(q) == wrapping_add(q.read, q.amount) < Fixed_capacity(q)

\* Faulty variant: the modulo is forgotten.
Fixed_write_to_NoModulo(q) == q.read + q.amount

Fixed_write_to(q) == wrapping_add(q.read, q.amount) % Fixed_capacity(q)

\* Faulty variant: the wrapped case is forgotten.
Fixed_readable_slice_NoWrap(q) == Range(q.read, (q.read + q.amount) % Len(q.data))

Fixed_readable_slice(q) ==
    IF Fixed_is_data_contiguous(q)
    THEN Range(q.read, Fixed_write_to(q))
    ELSE Range(q.read, Len(q.data))

\* Faulty variant: a free range that does not wrap exposes one slot only.
Fixed_writeable_slice_OneSlot(q) ==
    LET write_to == (q.read + q.amount) % Len(q.data)
    IN  IF q.read + q.amount < Len(q.data)
        THEN Range(write_to, write_to + 1)
        ELSE Range(write_to, q.read)

\* Faulty variant: the free region always runs to the end of the storage.
Fixed_writeable_slice_ToEnd(q) ==
    Range((q.read + q.amount) % Len(q.data), Len(q.data))

Fixed_writeable_slice(q) ==
    LET capacity == Fixed_capacity(q)
        write_to == Fixed_write_to(q)
    IN  IF Fixed_is_data_contiguous(q)
        THEN Range(write_to, capacity)
        ELSE Range(write_to, q.read)

Fixed_len(q) == q.amount

\* Faulty variant: the fullness test is off by one, so a full queue accepts.
\* Faulty variant: a full queue grows by one slot instead of rejecting.
Fixed_enqueue_Grows(q, item) ==
    IF q.amount = Len(q.data)
    THEN [q |-> [q EXCEPT !.data = Append(q.data, item), !.amount = @ + 1], ret |-> None]
    ELSE [q |-> [q EXCEPT !.data[((q.read + q.amount) % Len(q.data)) + 1] = item,
                          !.amount = @ + 1],
          ret |-> None]

\* Faulty variant: the last free slot is never used.
Fixed_enqueue_RejectsEarly(q, item) ==
    IF q.amount + 1 >= Len(q.data)
    THEN [q |-> q, ret |-> Some(item)]
    ELSE [q |-> [q EXCEPT !.data[((q.read + q.amount) % Len(q.data)) + 1] = item,
                          !.amount = @ + 1],
          ret |-> None]

Fixed_enqueue_OffByOne(q, item) ==
    IF q.amount > Len(q.data)
    THEN [q |-> q, ret |-> Some(item)]
    ELSE [q |-> [q EXCEPT !.data[((q.read + q.amount) % Len(q.data)) + 1] = item,
                          !.amount = @ + 1],
          ret |-> None]

Fixed_enqueue(q, item) ==
    IF q.amount = Fixed_capacity(q)
    THEN [q |-> q, ret |-> Some(item)]
    ELSE [q |-> [q EXCEPT !.data[Fixed_write_to(q) + 1] = item, !.amount = @ + 1],
          ret |-> None]

Fixed_expose_slots(q) ==
    IF q.amount = Fixed_capacity(q) THEN None ELSE Some(Fixed_writeable_slice(q))

\* Faulty variant: one item is counted whatever was confirmed.
Fixed_consider_enqueued_AddsOne(q, amount) == [q EXCEPT !.amount = @ + 1]

\* Faulty variant: the count is validated against the capacity.
Fixed_consider_enqueued_Clamped(q, amount) ==
    [q EXCEPT !.amount = min(@ + amount, Len(q.data))]

\* `self.amount += amount`: where overflow checks are off the sum wraps
\* (where they are on, see consider_enqueued_panics).
Fixed_consider_enqueued(q, amount) == [q EXCEPT !.amount = wrapping_add(@, amount)]

\* Faulty variant: the item count is not decremented.
Fixed_dequeue_KeepsAmount(q, u) ==
    IF q.amount = 0
    THEN [q |-> q, ret |-> None]
    ELSE [q |-> [q EXCEPT !.read = (q.read + 1) % Len(q.data)],
          ret |-> Some(assume_init(q.data[q.read + 1], u))]

\* Faulty variant: the read index is not advanced.
Fixed_dequeue_KeepsRead(q, u) ==
    IF q.amount = 0
    THEN [q |-> q, ret |-> None]
    ELSE [q |-> [q EXCEPT !.amount = @ - 1],
          ret |-> Some(assume_init(q.data[q.read + 1], u))]

Fixed_dequeue(q, u) ==
    IF q.amount = 0
    THEN [q |-> q, ret |-> None]
    ELSE LET previous_read == q.read
         IN  [q |-> [q EXCEPT !.read = (q.read + 1) % Fixed_capacity(q),
                              !.amount = @ - 1],
              ret |-> Some(assume_init(q.data[previous_read + 1], u))]

Fixed_expose_items(q) ==
    IF q.amount = 0 THEN None ELSE Some(Fixed_readable_slice(q))

\* Faulty variant: one item is removed whatever was confirmed.
Fixed_consider_dequeued_TakesOne(q, amount) ==
    [q EXCEPT !.read = (q.read + 1) % Len(q.data), !.amount = @ - 1]

\* Faulty variant: the read index is advanced without the modulo.
Fixed_consider_dequeued_NoModulo(q, amount) ==
    [q EXCEPT !.read = q.read + amount, !.amount = @ - amount]

Fixed_consider_dequeued(q, amount) ==
    [q EXCEPT !.read = (q.read + amount) % Fixed_capacity(q), !.amount = @ - amount]

(* ------------------------------- Static -------------------------------- *)

Static_new(N) ==
    [kind |-> "Static", data |-> [i \in 1..N |-> Uninit], read |-> 0, amount |-> 0]

\* The const parameter N of Static<T, N> is the length of its array.
Static_N(q) == Len(q.data)

\* Faulty variant: the comparison admits equality.
Static_is_data_contiguous_Le(q) == q.read + q.amount <= Static_N(q)

Static_is_data_contiguous(q) == wrapping_add(q.read, q.amount) < Static_N(q)

\* Faulty variant: the write index is one slot too far.
Static_write_to_PlusOne(q) == (q.read + q.amount + 1) % Static_N(q)

Static_write_to(q) == wrapping_add(q.read, q.amount) % Static_N(q)

\* Faulty variant: a wrapped live range exposes its first item only.
Static_readable_slice_OneWhenWrapped(q) ==
    IF q.read + q.amount < Len(q.data)
    THEN Range(q.read, q.read + q.amount)
    ELSE Range(q.read, q.read + 1)

Static_readable_slice(q) ==
    IF Static_is_data_contiguous(q)
    THEN Range(q.read, Static_write_to(q))
    ELSE Range(q.read, Len(q.data))

\* Faulty variant: the wrapped case is forgotten, the region runs to the end
\* of storage.
Static_writeable_slice_ToEnd(q) ==
    Range((q.read + q.amount) % Len(q.data), Len(q.data))

Static_writeable_slice(q) ==
    LET capacity == Static_N(q)
        write_to == Static_write_to(q)
    IN  IF Static_is_data_contiguous(q)
        THEN Range(write_to, capacity)
        ELSE Range(write_to, q.read)

Static_len(q) == q.amount

Static_enqueue(q, item) ==
    IF q.amount = Static_N(q)
    THEN [q |-> q, ret |-> Some(item)]
    ELSE [q |-> [q EXCEPT !.data[Static_write_to(q) + 1] = item, !.amount = @ + 1],
          ret |-> None]

Static_expose_slots(q) ==
    IF q.amount = Static_N(q) THEN None ELSE Some(Static_writeable_slice(q))

\* Faulty variant: the count is overwritten instead of increased.
Static_consider_enqueued_Sets(q, amount) == [q EXCEPT !.amount = amount]

Static_consider_enqueued(q, amount) == [q EXCEPT !.amount = wrapping_add(@, amount)]

\* Faulty variant: the read index is advanced before the emptiness test.
Static_dequeue_AdvancesWhenEmpty(q, u) ==
    LET previous_read == q.read
        advanced      == [q EXCEPT !.read = (q.read + 1) % Len(q.data)]
    IN  IF q.amount = 0
        THEN [q |-> advanced, ret |-> None]
        ELSE [q |-> [advanced EXCEPT !.amount = @ - 1],
              ret |-> Some(assume_init(q.data[previous_read + 1], u))]

Static_dequeue(q, u) ==
    IF q.amount = 0
    THEN [q |-> q, ret |-> None]
    ELSE LET previous_read == q.read
         IN  [q |-> [q EXCEPT !.read = (q.read + 1) % Static_N(q),
                              !.amount = @ - 1],
              ret |-> Some(assume_init(q.data[previous_read + 1], u))]

Static_expose_items(q) ==
    IF q.amount = 0 THEN None ELSE Some(Static_readable_slice(q))

\* Faulty variant: a call always removes an item if there is one.
Static_consider_dequeued_AtLeastOne(q, amount) ==
    LET n == IF amount = 0 /\ q.amount > 0 THEN 1 ELSE amount
    IN  [q EXCEPT !.read = (q.read + n) % Len(q.data), !.amount = @ - n]

\* Faulty variant: the read index moves but the amount is not reduced.
Static_consider_dequeued_KeepsAmount(q, amount) ==
    [q EXCEPT !.read = (q.read + amount) % Len(q.data)]

Static_consider_dequeued(q, amount) ==
    [q EXCEPT !.read = (q.read + amount) % Static_N(q), !.amount = @ - amount]

(* --------------------- the Queue trait (dispatch) ---------------------- *)

len(q) == IF q.kind = "Fixed" THEN Fixed_len(q) ELSE Static_len(q)

is_empty(q) == len(q) = 0

enqueue(q, item) ==
    IF q.kind = "Fixed" THEN Fixed_enqueue(q, item) ELSE Static_enqueue(q, item)

expose_slots(q) ==
    IF q.kind = "Fixed" THEN Fixed_expose_slots(q) ELSE Static_expose_slots(q)

consider_enqueued(q, amount) ==
    IF q.kind = "Fixed"
    THEN Fixed_consider_enqueued(q, amount)
    ELSE Static_consider_enqueued(q, amount)

dequeue(q, u) ==
    IF q.kind = "Fixed" THEN Fixed_dequeue(q, u) ELSE Static_dequeue(q, u)

expose_items(q) ==
    IF q.kind = "Fixed" THEN Fixed_expose_items(q) ELSE Static_expose_items(q)

consider_dequeued(q, amount) ==
    IF q.kind = "Fixed"
    THEN Fixed_consider_dequeued(q, amount)
    ELSE Static_consider_dequeued(q, amount)

\* Faulty variant: the items land one slot too late.
copy_into_slots_Shifted(q, r, buffer, amount) ==
    [q EXCEPT !.data = [i \in 1..Len(q.data) |->
        IF r.start + 1 < i /\ i <= r.start + 1 + amount
        THEN buffer[i - r.start - 1]
        ELSE q.data[i]]]

\* MaybeUninit::copy_from_slice(&mut slots[..amount], &buffer[..amount]),
\* slots being the range r of q.data.
copy_into_slots(q, r, buffer, amount) ==
    [q EXCEPT !.data = [i \in 1..Len(q.data) |->
        IF r.start < i /\ i <= r.start + amount THEN buffer[i - r.start] ELSE q.data[i]]]

\* Faulty variant: one slot past the copied prefix is written as well.
copy_from_items_Overrun(buffer, items, amount) ==
    [i \in 1..Len(buffer) |->
        IF i <= amount THEN items[i]
        ELSE IF i = amount + 1 /\ amount >= 1 THEN items[amount]
        ELSE buffer[i]]

\* Faulty variant: the items are copied out back to front.
copy_from_items_Reversed(buffer, items, amount) ==
    [i \in 1..Len(buffer) |-> IF i <= amount THEN items[amount + 1 - i] ELSE buffer[i]]

\* buffer[..amount].copy_from_slice(&slots[..amount])
copy_from_items(buffer, items, amount) ==
    [i \in 1..Len(buffer) |-> IF i <= amount THEN items[i] ELSE buffer[i]]

\* Faulty variant: a call moves two items at most.
bulk_enqueue_AtMostTwo(q, buffer) ==
    LET exposed == expose_slots(q)
    IN  IF exposed = None
        THEN [q |-> q, ret |-> 0]
        ELSE LET slots  == exposed[1]
                 amount == min(min(RangeLen(slots), Len(buffer)), 2)
             IN  [q |-> consider_enqueued(copy_into_slots(q, slots, buffer, amount), amount),
                  ret |-> amount]

bulk_enqueue(q, buffer) ==
    LET exposed == expose_slots(q)
    IN  IF exposed = None
        THEN [q |-> q, ret |-> 0]
        ELSE LET slots  == exposed[1]
                 amount == min(RangeLen(slots), Len(buffer))
             IN  [q |-> consider_enqueued(copy_into_slots(q, slots, buffer, amount), amount),
                  ret |-> amount]

\* MaybeUninit::slice_assume_init_ref(slice): the items of the range r.
slice_assume_init_ref(q, r, u) ==
    [i \in 1..RangeLen(r) |-> assume_init(q.data[r.start + i], u)]

\* Faulty variant: the items copied out are not confirmed as dequeued.
bulk_dequeue_NoConfirm(q, buffer, u) ==
    LET exposed == expose_items(q)
    IN  IF exposed = None
        THEN [q |-> q, ret |-> 0, buffer |-> buffer]
        ELSE LET slots  == exposed[1]
                 amount == min(RangeLen(slots), Len(buffer))
             IN  [q |-> q,
                  ret |-> amount,
                  buffer |-> copy_from_items(buffer, slice_assume_init_ref(q, slots, u), amount)]

bulk_dequeue(q, buffer, u) ==
    LET exposed == expose_items(q)
    IN  IF exposed = None
        THEN [q |-> q, ret |-> 0, buffer |-> buffer]
        ELSE LET slots  == exposed[1]
                 amount == min(RangeLen(slots), Len(buffer))
             IN  [q |-> consider_dequeued(q, amount),
                  ret |-> amount,
                  buffer |-> copy_from_items(buffer, slice_assume_init_ref(q, slots, u), amount)]

\* MaybeUninit::copy_from_slice(&mut buffer[..amount], &slots[..amount])
uninit_copy_from_slice(buffer, items, amount) ==
    [i \in 1..Len(buffer) |-> IF i <= amount THEN items[i] ELSE buffer[i]]

\* Faulty variant: the items are confirmed as dequeued but not copied.
bulk_dequeue_uninit_NoCopy(q, buffer, u) ==
    LET exposed == expose_items(q)
    IN  IF exposed = None
        THEN [q |-> q, ret |-> 0, buffer |-> buffer]
        ELSE LET amount == min(RangeLen(exposed[1]), Len(buffer))
             IN  [q |-> consider_dequeued(q, amount), ret |-> amount, buffer |-> buffer]

bulk_dequeue_uninit(q, buffer, u) ==
    LET exposed == expose_items(q)
    IN  IF exposed = None
        THEN [q |-> q, ret |-> 0, buffer |-> buffer]
        ELSE LET slots  == exposed[1]
                 amount == min(RangeLen(slots), Len(buffer))
             IN  [q |-> consider_dequeued(q, amount),
                  ret |-> amount,
                  buffer |-> uninit_copy_from_slice(
                                 buffer, slice_assume_init_ref(q, slots, u), amount)]

(* --------------------------- panic conditions -------------------------- *)

\* The private helpers of the two implementations, by kind.
is_data_contiguous(q) ==
    IF q.kind = "Fixed" THEN Fixed_is_data_contiguous(q) ELSE Static_is_data_contiguous(q)

write_to(q) == IF q.kind = "Fixed" THEN Fixed_write_to(q) ELSE Static_write_to(q)

readable_slice(q) ==
    IF q.kind = "Fixed" THEN Fixed_readable_slice(q) ELSE Static_readable_slice(q)

writeable_slice(q) ==
    IF q.kind = "Fixed" THEN Fixed_writeable_slice(q) ELSE Static_writeable_slice(q)

\* data[i] panics unless i < data.len().
index_panics(q, i) == ~(i < Len(q.data))

\* data[start..end] panics unless start <= end <= data.len().
slice_panics(q, r) == ~RangeOK(r, Len(q.data))

\* `self.read + self.amount` of is_data_contiguous().
is_data_contiguous_panics(q, build) ==
    build = "debug" /\ add_overflows(q.read, q.amount)

\* `(self.read + self.amount) % self.capacity()`: the sum may overflow, the
\* remainder panics on a zero divisor.
write_to_panics(q, build) ==
    \/ build = "debug" /\ add_overflows(q.read, q.amount)
    \/ Len(q.data) = 0

readable_slice_panics(q, build) ==
    \/ is_data_contiguous_panics(q, build)
    \/ is_data_contiguous(q) /\ write_to_panics(q, build)
    \/ slice_panics(q, readable_slice(q))

writeable_slice_panics(q, build) ==
    \/ write_to_panics(q, build)
    \/ is_data_contiguous_panics(q, build)
    \/ slice_panics(q, writeable_slice(q))

\* Faulty variant: the write index is computed before the full check.
enqueue_panics_WriteToFirst(q, build) ==
    \/ write_to_panics(q, build)
    \/ /\ q.amount # Len(q.data)
       /\ \/ index_panics(q, write_to(q))
          \/ build = "debug" /\ add_overflows(q.amount, 1)

enqueue_panics(q, build) ==
    /\ q.amount # Len(q.data)
    /\ \/ write_to_panics(q, build)
       \/ index_panics(q, write_to(q))
       \/ build = "debug" /\ add_overflows(q.amount, 1)

expose_slots_panics(q, build) ==
    q.amount # Len(q.data) /\ writeable_slice_panics(q, build)

consider_enqueued_panics(q, n, build) ==
    build = "debug" /\ add_overflows(q.amount, n)

dequeue_panics(q, build) ==
    /\ q.amount # 0
    /\ \/ build = "debug" /\ add_overflows(q.read, 1)
       \/ Len(q.data) = 0
       \/ index_panics(q, q.read)

expose_items_panics(q, build) ==
    q.amount # 0 /\ readable_slice_panics(q, build)

\* `self.amount -= amount` underflows.
consider_dequeued_underflows(q, n) == n > q.amount

consider_dequeued_panics(q, n, build) ==
    \/ build = "debug" /\ add_overflows(q.read, n)
    \/ Len(q.data) = 0
    \/ build = "debug" /\ consider_dequeued_underflows(q, n)

\* bulk_enqueue: slots[..amount] and buffer[..amount] are in bounds by the
\* choice of amount; what is left are the two calls it makes.
bulk_enqueue_panics(q, buffer, build) ==
    \/ expose_slots_panics(q, build)
    \/ /\ expose_slots(q) # None
       /\ consider_enqueued_panics(
              q, min(RangeLen(expose_slots(q)[1]), Len(buffer)), build)

bulk_dequeue_panics(q, buffer, build) ==
    \/ expose_items_panics(q, build)
    \/ /\ expose_items(q) # None
       /\ consider_dequeued_panics(
              q, min(RangeLen(expose_items(q)[1]), Len(buffer)), build)

(* ------------------------ sequences of calls -------------------------- *)

RECURSIVE DrainFrom(_, _)
\* The items that dequeue() returns when called until it returns None (at
\* most `calls` times); a slot that was never written shows as Uninit.
DrainFrom(q, calls) ==
    IF calls = 0
    THEN <<>>
    ELSE LET r == dequeue(q, Uninit)
         IN  IF r.ret = None THEN <<>> ELSE <<r.ret[1]>> \o DrainFrom(r.q, calls - 1)

Drain(q) == DrainFrom(q, Len(q.data) + 1)

RECURSIVE EnqueueEach(_, _)
\* enqueue() called once per item of xs, in order, up to the first rejection.
EnqueueEach(q, xs) ==
    IF xs = <<>>
    THEN [q |-> q, accepted |-> 0]
    ELSE LET r == enqueue(q, Head(xs))
         IN  IF r.ret # None
             THEN [q |-> q, accepted |-> 0]
             ELSE LET rest == EnqueueEach(r.q, Tail(xs))
                  IN  [q |-> rest.q, accepted |-> rest.accepted + 1]

RECURSIVE DequeueTimes(_, _)
\* dequeue() called n times: the final queue and the n results, in order.
DequeueTimes(q, n) ==
    IF n = 0
    THEN [q |-> q, rets |-> <<>>]
    ELSE LET r    == dequeue(q, Uninit)
             rest == DequeueTimes(r.q, n - 1)
         IN  [q |-> rest.q, rets |-> <<r.ret>> \o rest.rets]

RECURSIVE BulkDrain(_, _, _)
\* bulk_dequeue into a destination of n slots, called until it returns 0 but
\* at most `calls` times: the final queue, the number of calls that returned
\* a non-zero count, and whether a call returned 0.
BulkDrain(q, n, calls) ==
    IF calls = 0
    THEN [q |-> q, moved |-> 0, ended |-> FALSE]
    ELSE LET r == bulk_dequeue(q, [i \in 1..n |-> Filler], Uninit)
         IN  IF r.ret = 0
             THEN [q |-> r.q, moved |-> 0, ended |-> TRUE]
             ELSE LET rest == BulkDrain(r.q, n, calls - 1)
                  IN  [q |-> rest.q, moved |-> rest.moved + 1, ended |-> rest.ended]

RECURSIVE BulkFill(_, _, _)
\* bulk_enqueue of the not yet accepted suffix of source, called until the
\* suffix is empty or a call returns 0, but at most `calls` times: the
\* final queue, the suffix left, and whether the loop ended.
BulkFill(q, source, calls) ==
    IF source = <<>>
    THEN [q |-> q, left |-> source, ended |-> TRUE]
    ELSE IF calls = 0
         THEN [q |-> q, left |-> source, ended |-> FALSE]
         ELSE LET r == bulk_enqueue(q, source)
              IN  IF r.ret = 0
                  THEN [q |-> r.q, left |-> source, ended |-> TRUE]
                  ELSE BulkFill(r.q, SubSeq(source, r.ret + 1, Len(source)), calls - 1)

(* ------------------------------- state --------------------------------- *)

VARIABLES
    kind,      \* which implementation the queue under test is
    data,      \* the ring buffer
    read,      \* read index
    amount,    \* amount of valid data
    control,   \* the reference VecDeque of the differential harness
    borrow,    \* the region most recently exposed and not yet confirmed
    last,      \* the most recent call: its name, argument, result, reference result
    wraps,     \* how often the read cursor passed the end of storage (saturating)
    net,       \* items the queue accepted so far minus items it gave out so far
    trace      \* the calls of the scripted scenario made so far, with their results

vars == <<kind, data, read, amount, control, borrow, last, wraps, net, trace>>

self == [kind |-> kind, data |-> data, read |-> read, amount |-> amount]

Become(q) ==
    /\ kind' = q.kind
    /\ data' = q.data
    /\ read' = q.read
    /\ amount' = q.amount

NoBorrow == [kind |-> "none", region |-> Range(0, 0), written |-> 0, data0 |-> <<>>]

Call(op, arg, ret, out, ctl) == [op |-> op, arg |-> arg, ret |-> ret, out |-> out, ctl |-> ctl]

\* The read cursor of q passes the end of storage when n items leave.
Passes(q, n) == n > 0 /\ q.read + n >= Len(q.data)

CountWraps(q, n) == IF Passes(q, n) THEN min(wraps + 1, MaxWraps) ELSE wraps

\* The values a read of a never-written slot of q may produce, drawn from
\* S; one value stands for all when q has no such slot.
Undefined(q, S) ==
    IF \E i \in 1..Len(q.data) : q.data[i] = Uninit THEN S ELSE {CHOOSE x \in S : TRUE}

Buffers == SeqsUpTo(Items, MaxBuf)

Init ==
    /\ \E capacity \in 1..MaxCap :
          \E q \in {Fixed_new(capacity), Static_new(capacity)} :
             /\ kind = q.kind
             /\ data = q.data
             /\ read = q.read
             /\ amount = q.amount
    /\ control = <<>>
    /\ borrow = NoBorrow
    /\ last = Call("new", <<>>, <<>>, <<>>, <<>>)
    /\ wraps = 0
    /\ net = 0
    /\ trace = <<>>

(* ------------------------------ actions -------------------------------- *)

\* An operation that panics does not return: the calls below are made where
\* they return under either build profile.

\* Operation::Enqueue(item) of the harness, item of the item type S.
EnqueueOf(S) ==
    /\ borrow.kind = "none"
    /\ \A build \in Builds : ~enqueue_panics(self, build)
    /\ \E item \in S :
          LET capacity       == Len(data)
              control_result == IF Len(control) >= capacity THEN Some(item) ELSE None
              test           == enqueue(self, item)
          IN  /\ control' = IF Len(control) >= capacity THEN control ELSE Append(control, item)
              /\ Become(test.q)
              /\ last' = Call("enqueue", <<item>>, test.ret, <<>>, control_result)
              /\ net' = IF test.ret = None THEN net + 1 ELSE net
    /\ UNCHANGED <<borrow, wraps, trace>>

Enqueue == EnqueueOf(Items)

\* Operation::Dequeue of the harness.
DequeueOf(S) ==
    /\ borrow.kind = "none"
    /\ \A build \in Builds : ~dequeue_panics(self, build)
    /\ \E u \in Undefined(self, S) :
          LET control_result == IF control = <<>> THEN None ELSE Some(Head(control))
              test           == dequeue(self, u)
          IN  /\ control' = IF control = <<>> THEN control ELSE Tail(control)
              /\ Become(test.q)
              /\ last' = Call("dequeue", <<>>, test.ret, <<>>, control_result)
              /\ wraps' = CountWraps(self, amount - test.q.amount)
              /\ net' = IF test.ret = None THEN net ELSE net - 1
    /\ UNCHANGED <<borrow, trace>>

Dequeue == DequeueOf(Items)

\* Operation::BulkEnqueue(items) of the harness, items one of the buffers B.
BulkEnqueueOf(B) ==
    /\ borrow.kind = "none"
    /\ \E items \in B :
          LET test == bulk_enqueue(self, items)
          IN  /\ \A build \in Builds : ~bulk_enqueue_panics(self, items, build)
              /\ control' = control \o SubSeq(items, 1, min(test.ret, Len(items)))
              /\ Become(test.q)
              /\ last' = Call("bulk_enqueue", <<Len(items)>>, <<test.ret>>, <<>>, <<>>)
              /\ net' = net + test.ret
    /\ UNCHANGED <<borrow, wraps, trace>>

BulkEnqueue == BulkEnqueueOf(Buffers)

\* Operation::BulkDequeue(n) of the harness, n at most longest.
BulkDequeueOf(S, longest) ==
    /\ borrow.kind = "none"
    /\ \E n \in 0..longest, u \in Undefined(self, S) :
          LET test_buffer    == [i \in 1..n |-> Filler]
              test           == bulk_dequeue(self, test_buffer, u)
              popped         == min(test.ret, Len(control))
              control_buffer == SubSeq(control, 1, popped)
          IN  /\ \A build \in Builds : ~bulk_dequeue_panics(self, test_buffer, build)
              /\ control' = SubSeq(control, popped + 1, Len(control))
              /\ Become(test.q)
              /\ last' = Call("bulk_dequeue", <<n>>, <<test.ret>>, test.buffer, control_buffer)
              /\ wraps' = CountWraps(self, amount - test.q.amount)
              /\ net' = net - test.ret
    /\ UNCHANGED <<borrow, trace>>

BulkDequeue == BulkDequeueOf(Items, MaxBuf)

\* expose_slots(): the caller now holds the writable region.
ExposeSlots ==
    /\ borrow.kind \in {"none", "slots"}
    /\ LET exposed == expose_slots(self)
       IN  /\ borrow' = IF exposed = None
                        THEN NoBorrow
                        ELSE [kind |-> "slots", region |-> exposed[1], written |-> 0,
                              data0 |-> data]
           /\ last' = Call("expose_slots", <<>>, exposed, <<>>, <<>>)
    /\ UNCHANGED <<kind, data, read, amount, control, wraps, net, trace>>

\* The caller writes the next position of the exposed region.
WriteSlot ==
    /\ borrow.kind = "slots"
    /\ borrow.written < RangeLen(borrow.region)
    /\ \E item \in Items :
          /\ data' = [data EXCEPT ![borrow.region.start + borrow.written + 1] = item]
          /\ last' = Call("write", <<item>>, <<>>, <<>>, <<>>)
    /\ borrow' = [borrow EXCEPT !.written = @ + 1]
    /\ UNCHANGED <<kind, read, amount, control, wraps, net, trace>>

\* consider_enqueued(n), n the number of positions the caller has written.
ConsiderEnqueued ==
    /\ borrow.kind = "slots"
    /\ LET n  == borrow.written
           xs == SliceOf(data, Range(borrow.region.start, borrow.region.start + n))
       IN  /\ Become(consider_enqueued(self, n))
           /\ control' = control \o xs
           /\ last' = Call("consider_enqueued", <<n>>, <<>>, <<>>, xs)
           /\ net' = net + n
    /\ borrow' = NoBorrow
    /\ UNCHANGED <<wraps, trace>>

\* expose_items(): the caller now holds the readable region.
ExposeItems ==
    /\ borrow.kind \in {"none", "items"}
    /\ \E u \in Undefined(self, Items) :
          LET exposed == expose_items(self)
          IN  /\ borrow' = IF exposed = None
                           THEN NoBorrow
                           ELSE [kind |-> "items", region |-> exposed[1], written |-> 0,
                                 data0 |-> data]
              /\ last' = Call("expose_items", <<>>, exposed,
                              IF exposed = None THEN <<>>
                              ELSE slice_assume_init_ref(self, exposed[1], u), <<>>)
    /\ UNCHANGED <<kind, data, read, amount, control, wraps, net, trace>>

\* consider_dequeued(n), n at most the length of the region just exposed.
ConsiderDequeued ==
    /\ borrow.kind = "items"
    /\ \E n \in 0..RangeLen(borrow.region) :
          /\ Become(consider_dequeued(self, n))
          /\ control' = SubSeq(control, min(n, Len(control)) + 1, Len(control))
          /\ last' = Call("consider_dequeued", <<n>>, <<>>, <<>>,
                          SubSeq(control, 1, min(n, Len(control))))
          /\ wraps' = CountWraps(self, n)
          /\ net' = net - n
    /\ borrow' = NoBorrow
    /\ UNCHANGED trace

Next ==
    \/ Enqueue
    \/ Dequeue
    \/ BulkEnqueue
    \/ BulkDequeue
    \/ ExposeSlots
    \/ WriteSlot
    \/ ConsiderEnqueued
    \/ ExposeItems
    \/ ConsiderDequeued

Spec == Init /\ [][Next]_vars

\* The harness of fuzz_targets/fixed_enqueue_dequeue.rs: single items only.
NextSingle ==
    \/ Enqueue
    \/ Dequeue

SpecSingle == Init /\ [][NextSingle]_vars

\* The harness of fuzz_targets/static_bulk.rs: single items and bulk calls.
NextHarness ==
    \/ Enqueue
    \/ Dequeue
    \/ BulkEnqueue
    \/ BulkDequeue

SpecHarness == Init /\ [][NextHarness]_vars

\* bulk_dequeue_uninit(buffer), buffer n slots of uninitialised memory, as
\* in tests::bulk_enqueues_and_dequeues_with_correct_amount.
BulkDequeueUninit ==
    /\ borrow.kind = "none"
    /\ \E n \in 0..MaxBuf, u \in Undefined(self, Items) :
          LET buf    == [i \in 1..n |-> Uninit]
              test   == bulk_dequeue_uninit(self, buf, u)
              popped == min(test.ret, Len(control))
          IN  /\ \A build \in Builds : ~bulk_dequeue_panics(self, buf, build)
              /\ control' = SubSeq(control, popped + 1, Len(control))
              /\ Become(test.q)
              /\ last' = Call("bulk_dequeue_uninit", <<n>>, <<test.ret>>, test.buffer,
                              SubSeq(control, 1, popped))
              /\ wraps' = CountWraps(self, amount - test.q.amount)
              /\ net' = net - test.ret
    /\ UNCHANGED <<borrow, trace>>

\* The calls of the unit tests of fixed.rs and static_.rs, in any order.
NextUninit ==
    \/ Enqueue
    \/ Dequeue
    \/ BulkEnqueue
    \/ BulkDequeueUninit

SpecUninit == Init /\ [][NextUninit]_vars

\* consider_enqueued(n) called with any n at all, whatever was exposed or
\* written: the function is `unsafe`, nothing stops such a call.
ConsiderEnqueuedUnchecked ==
    /\ borrow.kind = "none"
    /\ \E n \in 0..UsizeMax :
          /\ \A build \in Builds : ~consider_enqueued_panics(self, n, build)
          /\ Become(consider_enqueued(self, n))
          /\ last' = Call("consider_enqueued", <<n>>, <<>>, <<>>, <<>>)
          /\ net' = net + n
    /\ UNCHANGED <<control, borrow, wraps, trace>>

\* Nothing is ever written: every slot that consider_enqueued declares live
\* is uninitialised memory, which dequeue then reads.
NextUnchecked ==
    \/ Dequeue
    \/ ConsiderEnqueuedUnchecked

SpecUnchecked == Init /\ [][NextUnchecked]_vars

\* Fixed::new(capacity) and Static::<T, N>::new() take any capacity, 0
\* included.
InitAnyCapacity ==
    /\ \E capacity \in 0..MaxCap :
          \E q \in {Fixed_new(capacity), Static_new(capacity)} :
             /\ kind = q.kind
             /\ data = q.data
             /\ read = q.read
             /\ amount = q.amount
    /\ control = <<>>
    /\ borrow = NoBorrow
    /\ last = Call("new", <<>>, <<>>, <<>>, <<>>)
    /\ wraps = 0
    /\ net = 0
    /\ trace = <<>>

SpecAnyCapacity == InitAnyCapacity /\ [][Next]_vars

(* ----------------------- zero-sized item types ------------------------- *)

\* A zero-sized item type (such as the unit type) has one value and needs
\* no memory, so a queue of such items can be created with any capacity up
\* to usize::MAX: Box::new_uninit_slice(capacity) allocates nothing, and
\* [MaybeUninit<T>; N] has size 0 for every N.
ZstItems == {CHOOSE x \in Items : TRUE}

ZstBuffers == SeqsUpTo(ZstItems, UsizeMax)

InitZst ==
    /\ \E capacity \in 1..UsizeMax :
          \E q \in {Fixed_new(capacity), Static_new(capacity)} :
             /\ kind = q.kind
             /\ data = q.data
             /\ read = q.read
             /\ amount = q.amount
    /\ control = <<>>
    /\ borrow = NoBorrow
    /\ last = Call("new", <<>>, <<>>, <<>>, <<>>)
    /\ wraps = 0
    /\ net = 0
    /\ trace = <<>>

ZstEnqueue == EnqueueOf(ZstItems)

ZstDequeue == DequeueOf(ZstItems)

ZstBulkEnqueue == BulkEnqueueOf(ZstBuffers)

ZstBulkDequeue == BulkDequeueOf(ZstItems, UsizeMax)

NextZst ==
    \/ ZstEnqueue
    \/ ZstDequeue
    \/ ZstBulkEnqueue
    \/ ZstBulkDequeue

SpecZst == InitZst /\ [][NextZst]_vars

(* ------------------------- a scripted scenario ------------------------- *)

\* Fixed::new(4) / Static::<u8, 4>::new() of the unit tests.
ScenarioCapacity == 4

ScenarioItems == {7, 21, 196, 233, 5, 9}

\* The calls of the scenario, in order; the items are chosen call by call.
ScenarioOps ==
    <<"enqueue", "enqueue", "enqueue", "enqueue", "enqueue", "dequeue",
      "bulk_enqueue", "bulk_dequeue", "bulk_dequeue">>

ScenarioNext(op) == Len(trace) < Len(ScenarioOps) /\ ScenarioOps[Len(trace) + 1] = op

Step(op, arg, ret, out, q) == [op |-> op, arg |-> arg, ret |-> ret, out |-> out, len |-> len(q)]

InitScenario ==
    /\ \E q \in {Fixed_new(ScenarioCapacity), Static_new(ScenarioCapacity)} :
          /\ kind = q.kind
          /\ data = q.data
          /\ read = q.read
          /\ amount = q.amount
    /\ control = <<>>
    /\ borrow = NoBorrow
    /\ last = Call("new", <<>>, <<>>, <<>>, <<>>)
    /\ wraps = 0
    /\ net = 0
    /\ trace = <<>>

ScenarioEnqueue ==
    /\ ScenarioNext("enqueue")
    /\ \E item \in ScenarioItems :
          LET r == enqueue(self, item)
          IN  /\ Become(r.q)
              /\ trace' = Append(trace, Step("enqueue", <<item>>, r.ret, <<>>, r.q))
              /\ net' = IF r.ret = None THEN net + 1 ELSE net
    /\ UNCHANGED <<control, borrow, last, wraps>>

ScenarioDequeue ==
    /\ ScenarioNext("dequeue")
    /\ \E u \in Undefined(self, ScenarioItems) :
          LET r == dequeue(self, u)
          IN  /\ Become(r.q)
              /\ trace' = Append(trace, Step("dequeue", <<>>, r.ret, <<>>, r.q))
              /\ net' = IF r.ret = None THEN net ELSE net - 1
    /\ UNCHANGED <<control, borrow, last, wraps>>

ScenarioBulkEnqueue ==
    /\ ScenarioNext("bulk_enqueue")
    /\ \E item \in ScenarioItems :
          LET r == bulk_enqueue(self, <<item>>)
          IN  /\ Become(r.q)
              /\ trace' = Append(trace, Step("bulk_enqueue", <<item>>, <<r.ret>>, <<>>, r.q))
              /\ net' = net + r.ret
    /\ UNCHANGED <<control, borrow, last, wraps>>

ScenarioBulkDequeue ==
    /\ ScenarioNext("bulk_dequeue")
    /\ \E u \in Undefined(self, ScenarioItems) :
          LET buffer == [i \in 1..ScenarioCapacity |-> Filler]
              r      == bulk_dequeue(self, buffer, u)
          IN  /\ Become(r.q)
              /\ trace' = Append(trace, Step("bulk_dequeue", <<Len(buffer)>>, <<r.ret>>,
                                             r.buffer, r.q))
              /\ net' = net - r.ret
    /\ UNCHANGED <<control, borrow, last, wraps>>

NextScenario ==
    \/ ScenarioEnqueue
    \/ ScenarioDequeue
    \/ ScenarioBulkEnqueue
    \/ ScenarioBulkDequeue

SpecScenario == InitScenario /\ [][NextScenario]_vars

(* ------------------------------ properties ----------------------------- *)

\* C1: every enqueue and dequeue returns what the reference FIFO bounded at
\* the capacity returns (the rejected item or None; the oldest item or None),
\* and the queue holds the reference's items in the reference's order, also
\* after the read cursor has passed the end of storage several times.
C1_FifoMatchesReference ==
    /\ last.op \in {"enqueue", "dequeue"} => last.ret = last.ctl
    /\ Drain(self) = control
    /\ len(self) = Len(control)

\* A dequeue returned an item after the read cursor had wrapped twice, with
\* the live range itself wrapped.
C1_Witness ==
    /\ last.op = "dequeue"
    /\ last.ret # None
    /\ wraps >= 2
    /\ read + amount > Len(data)

\* C2: under any mix of enqueue, dequeue, bulk_enqueue and bulk_dequeue the
\* queue equals the reference sequence at every step: bulk_enqueue returning
\* k appends items[0..k) and nothing else, bulk_dequeue returning k writes
\* the k oldest items to buffer[0..k) in order and removes exactly those.
C2_BulkMatchesReference ==
    /\ Drain(self) = control
    /\ last.op \in {"enqueue", "dequeue"} => last.ret = last.ctl
    /\ last.op = "bulk_dequeue" =>
          /\ Len(last.ctl) = last.ret[1]
          /\ last.ret[1] <= Len(last.out)
          /\ SubSeq(last.out, 1, last.ret[1]) = last.ctl
    /\ last.op = "bulk_enqueue" => last.ret[1] <= last.arg[1]

\* A bulk_dequeue moved two different items out of a queue whose read cursor
\* had wrapped before.
C2_Witness ==
    /\ last.op = "bulk_dequeue"
    /\ last.ret[1] >= 2
    /\ last.out[1] # last.out[2]
    /\ wraps >= 1

\* C3: in every state reached by the single-item calls, the bulk calls and
\* expose/consider pairs that confirm no more than was exposed,
\* 0 <= amount <= capacity, 0 <= len() <= capacity and 0 <= read < capacity.
C3_Bounds ==
    /\ 0 <= amount /\ amount <= Len(data)
    /\ 0 <= len(self) /\ len(self) <= Len(data)
    /\ 0 <= read /\ read < Len(data)

\* consider_dequeued has just moved the read cursor from the last slot back
\* to slot 0 in a queue of capacity above 1.
C3_Witness ==
    /\ last.op = "consider_dequeued"
    /\ last.arg[1] >= 2
    /\ read = 0
    /\ Len(data) > 1
    /\ wraps >= 1

ScenarioArgs == <<<<7>>, <<21>>, <<196>>, <<233>>, <<5>>, <<>>, <<9>>, <<4>>, <<4>>>>

FollowsScenario == \A i \in 1..Len(trace) : trace[i].arg = ScenarioArgs[i]

\* C6 as stated: after the first seven calls of the scenario, bulk_dequeue
\* into a buffer of size 4 returns 4 and the buffer is [21, 196, 233, 9].
C6_ScenarioAsStated ==
    (FollowsScenario /\ Len(trace) >= 8) =>
        /\ trace[8].ret = <<4>>
        /\ trace[8].out = <<21, 196, 233, 9>>

\* C6, amended: on a fresh queue of capacity 4, enqueue(7), enqueue(21),
\* enqueue(196), enqueue(233) are accepted (len() 1, 2, 3, 4); enqueue(5)
\* returns 5 (len() 4); dequeue() returns 7 (len() 3); bulk_enqueue([9])
\* returns 1 (len() 4); bulk_dequeue into 4 slots returns 3, the buffer
\* starts [21, 196, 233], its fourth slot is untouched and len() is 1; a
\* second bulk_dequeue returns 1 with 9 in the first slot and len() is 0.
C6_Scenario ==
    FollowsScenario =>
        LET rets == <<None, None, None, None, Some(5), Some(7), <<1>>, <<3>>, <<1>>>>
            lens == <<1, 2, 3, 4, 4, 3, 4, 1, 0>>
        IN  /\ \A i \in 1..Len(trace) : trace[i].ret = rets[i] /\ trace[i].len = lens[i]
            /\ Len(trace) >= 8 => trace[8].out = <<21, 196, 233, Filler>>
            /\ Len(trace) >= 9 => trace[9].out[1] = 9

\* The whole scenario has run with the stated arguments.
C6_Witness == FollowsScenario /\ Len(trace) = 9

\* C7 as stated: bulk_enqueue(buffer) leaves the same item sequence as
\* enqueue called once per item up to the first rejection, that is, it
\* accepts min(buffer.len, capacity - len()) items.
C7_BulkEnqueueAsStated ==
    borrow.kind = "none" =>
        \A buffer \in Buffers :
            LET b == bulk_enqueue(self, buffer)
                e == EnqueueEach(self, buffer)
            IN  /\ Drain(b.q) = Drain(e.q)
                /\ b.ret = min(Len(buffer), Len(data) - len(self))

\* C7, amended: bulk_enqueue(buffer) returning k leaves exactly the queue
\* that enqueue called once per item of buffer[0..k) leaves, all k accepted;
\* k <= min(buffer.len, capacity - len()), with equality whenever the free
\* slots do not wrap (read == 0 or read + len() >= capacity), and k >= 1
\* whenever the queue is not full and the buffer is not empty.
C7_BulkEnqueueIsEnqueues ==
    borrow.kind = "none" =>
        \A buffer \in Buffers :
            LET b    == bulk_enqueue(self, buffer)
                e    == EnqueueEach(self, SubSeq(buffer, 1, b.ret))
                free == Len(data) - len(self)
            IN  /\ 0 <= b.ret /\ b.ret <= min(Len(buffer), free)
                /\ e.accepted = b.ret
                /\ b.q = e.q
                /\ Drain(b.q) = Drain(self) \o SubSeq(buffer, 1, b.ret)
                /\ (read = 0 \/ read + amount >= Len(data)) =>
                      b.ret = min(Len(buffer), free)
                /\ (free > 0 /\ buffer # <<>>) => b.ret >= 1

\* A bulk_enqueue took some but not all of its buffer and the queue is
\* still not full: the free slots wrap.
C7_Witness ==
    /\ last.op = "bulk_enqueue"
    /\ last.ret[1] >= 1
    /\ last.ret[1] < last.arg[1]
    /\ amount < Len(data)

\* C8: writing x_0..x_{n-1} into the first n positions of the region that
\* expose_slots returned and calling consider_enqueued(n), n at most the
\* region's length, yields the queue (data, read, amount) that
\* enqueue(x_0), ..., enqueue(x_{n-1}) yield from the state at expose_slots.
C8_ConsiderEnqueuedIsEnqueues ==
    [][last'.op = "consider_enqueued" =>
          LET n  == last'.arg[1]
              xs == last'.ctl
              q0 == [self EXCEPT !.data = borrow.data0]
              e  == EnqueueEach(q0, xs)
          IN  /\ n <= RangeLen(borrow.region)
              /\ Len(xs) = n
              /\ e.accepted = n
              /\ self' = e.q
              /\ Drain(self') = Drain(q0) \o xs]_vars

\* consider_enqueued confirmed two or more written slots in a queue whose
\* read cursor is not at 0.
C8_Witness ==
    /\ last.op = "consider_enqueued"
    /\ last.arg[1] >= 2
    /\ read > 0

\* C9: consider_dequeued(n), n at most the length of the region that
\* expose_items returned, yields the queue that n dequeue() calls yield, and
\* the first n items of the region are what those calls return, in order.
C9_ConsiderDequeuedIsDequeues ==
    [][last'.op = "consider_dequeued" =>
          LET n       == last'.arg[1]
              d       == DequeueTimes(self, n)
              exposed == SliceOf(data, borrow.region)
          IN  /\ n <= Len(exposed)
              /\ self' = d.q
              /\ d.rets = [i \in 1..n |-> Some(exposed[i])]
              /\ \A i \in 1..n : exposed[i] # Uninit]_vars

\* consider_dequeued confirmed two or more items, taking the read cursor
\* past the end of storage, and items remain.
C9_Witness ==
    /\ last.op = "consider_dequeued"
    /\ last.arg[1] >= 2
    /\ read = 0
    /\ amount >= 1

\* C10: expose_slots() returns None exactly when len() == capacity, however
\* fullness was reached, and a region it returns has at least one slot and
\* lies within the storage.
C10_ExposeSlotsNoneIffFull ==
    LET exposed == expose_slots(self)
    IN  /\ exposed = None <=> len(self) = Len(data)
        /\ exposed # None =>
              /\ RangeLen(exposed[1]) >= 1
              /\ RangeOK(exposed[1], Len(data))
        /\ last.op = "expose_slots" => last.ret = exposed

\* consider_enqueued has just filled the queue, and expose_slots returns
\* None there.
C10_Witness ==
    /\ last.op = "consider_enqueued"
    /\ last.arg[1] >= 1
    /\ amount = Len(data)
    /\ expose_slots(self) = None

\* C11: expose_items() returns None exactly when len() == 0, however
\* emptiness was reached, and a region it returns has at least one item and
\* lies within the storage.
C11_ExposeItemsNoneIffEmpty ==
    LET exposed == expose_items(self)
    IN  /\ exposed = None <=> len(self) = 0
        /\ exposed # None =>
              /\ RangeLen(exposed[1]) >= 1
              /\ RangeOK(exposed[1], Len(data))
        /\ last.op = "expose_items" =>
              /\ last.ret = exposed
              /\ last.ret # None => Len(last.out) >= 1

\* consider_dequeued has just emptied a queue whose read cursor is not at
\* 0, and expose_items returns None there.
C11_Witness ==
    /\ last.op = "consider_dequeued"
    /\ last.arg[1] >= 1
    /\ amount = 0
    /\ read > 0
    /\ expose_items(self) = None

\* C12: bulk_enqueue(source) returns 0 when the queue is full and otherwise
\* min(length of the region expose_slots returns, source.len), and len()
\* grows by exactly the count returned; so the count is non-zero whenever
\* the queue is not full and source is not empty, and 0 with a non-empty
\* source only when the queue is full.
C12_BulkEnqueueCount ==
    borrow.kind = "none" =>
        \A source \in Buffers :
            LET b       == bulk_enqueue(self, source)
                exposed == expose_slots(self)
                full    == len(self) = Len(data)
            IN  /\ full => b.ret = 0
                /\ ~full => /\ exposed # None
                            /\ b.ret = min(RangeLen(exposed[1]), Len(source))
                /\ len(b.q) = len(self) + b.ret
                /\ (~full /\ source # <<>>) => b.ret >= 1
                /\ (b.ret = 0 /\ source # <<>>) => full

\* A bulk_enqueue took its whole source of two or more items into a queue
\* whose read cursor is not at 0.
C12_Witness ==
    /\ last.op = "bulk_enqueue"
    /\ last.ret[1] >= 2
    /\ last.ret[1] = last.arg[1]
    /\ read > 0

\* C13: bulk_dequeue(destination) returns 0 when the queue is empty and
\* otherwise min(length of the region expose_items returns,
\* destination.len), and len() shrinks by exactly the count returned; so the
\* count is non-zero whenever the queue and the destination are not empty,
\* and 0 with a non-empty destination only when the queue is empty.
C13_BulkDequeueCount ==
    borrow.kind = "none" =>
        \A n \in 0..MaxBuf :
            LET destination == [i \in 1..n |-> Filler]
                b           == bulk_dequeue(self, destination, Uninit)
                exposed     == expose_items(self)
                empty       == len(self) = 0
            IN  /\ empty => b.ret = 0
                /\ ~empty => /\ exposed # None
                             /\ b.ret = min(RangeLen(exposed[1]), n)
                /\ len(b.q) = len(self) - b.ret
                /\ (~empty /\ n >= 1) => b.ret >= 1
                /\ (b.ret = 0 /\ n >= 1) => empty

\* A bulk_dequeue into a destination with room to spare returned fewer
\* items than the queue held: the live range wraps.
C13_Witness ==
    /\ last.op = "bulk_dequeue"
    /\ last.ret[1] >= 1
    /\ last.ret[1] < last.arg[1]
    /\ amount >= 1

\* C14: on an empty queue of capacity >= 1, wherever the read cursor stands,
\* enqueue(x) immediately followed by dequeue() returns Some(x) and leaves
\* len() == 0; this holds of the two calls made from every reachable empty
\* state, and of every enqueue step followed by a dequeue step.
C14_RoundTrip ==
    /\ [](len(self) = 0 /\ Len(data) >= 1 =>
             \A x \in Items : \A u \in Items :
                 LET e == enqueue(self, x)
                     d == dequeue(e.q, u)
                 IN  /\ e.ret = None
                     /\ d.ret = Some(x)
                     /\ len(d.q) = 0)
    /\ [][(/\ last.op = "enqueue"
           /\ last.ret = None
           /\ amount = 1
           /\ last'.op = "dequeue")
             => (last'.ret = Some(last.arg[1]) /\ amount' = 0)]_vars

\* A dequeue returned an item and left the queue empty with the read cursor
\* away from 0, after the cursor had already passed the end of the storage.
C14_Witness ==
    /\ last.op = "dequeue"
    /\ last.ret # None
    /\ amount = 0
    /\ read > 0
    /\ wraps >= 1

\* C15: a Fixed queue of capacity N and a Static queue of const capacity N
\* behave identically: they start with the same storage, read and amount,
\* and from the same storage, read and amount every Queue operation gives
\* the same return value, the same exposed region (bounds and contents) and
\* the same storage, read and amount afterwards; so the same sequence of
\* operations keeps the two in step.
C15_FixedIsStatic ==
    LET f == [self EXCEPT !.kind = "Fixed"]
        s == [self EXCEPT !.kind = "Static"]
        Same(a, b) == a.data = b.data /\ a.read = b.read /\ a.amount = b.amount
        Region(q, exposed) == IF exposed = None THEN None
                              ELSE Some(SliceOf(q.data, exposed[1]))
        fi == expose_items(f)
        fs == expose_slots(f)
    IN  /\ Same(Fixed_new(Len(data)), Static_new(Len(data)))
        /\ len(f) = len(s)
        /\ is_empty(f) = is_empty(s)
        /\ fi = expose_items(s)
        /\ fs = expose_slots(s)
        /\ Region(f, fi) = Region(s, expose_items(s))
        /\ Region(f, fs) = Region(s, expose_slots(s))
        /\ \A item \in Items :
              LET ef == enqueue(f, item)
                  es == enqueue(s, item)
              IN  ef.ret = es.ret /\ Same(ef.q, es.q)
        /\ \A u \in Items :
              LET df == dequeue(f, u)
                  ds == dequeue(s, u)
              IN  df.ret = ds.ret /\ Same(df.q, ds.q)
        /\ fs # None =>
              \A n \in 0..RangeLen(fs[1]) :
                  Same(consider_enqueued(f, n), consider_enqueued(s, n))
        /\ fi # None =>
              \A n \in 0..RangeLen(fi[1]) :
                  Same(consider_dequeued(f, n), consider_dequeued(s, n))
        /\ \A buffer \in Buffers :
              LET bf == bulk_enqueue(f, buffer)
                  bs == bulk_enqueue(s, buffer)
              IN  bf.ret = bs.ret /\ Same(bf.q, bs.q)
        /\ \A n \in 0..MaxBuf : \A u \in Items :
              LET buffer == [i \in 1..n |-> Filler]
                  bf     == bulk_dequeue(f, buffer, u)
                  bs     == bulk_dequeue(s, buffer, u)
              IN  /\ bf.ret = bs.ret
                  /\ bf.buffer = bs.buffer
                  /\ Same(bf.q, bs.q)

\* A Static queue whose live items wrap past the end of the storage, right
\* after a bulk operation on it.
C15_Witness ==
    /\ kind = "Static"
    /\ read + amount > Len(data)
    /\ last.op \in {"bulk_enqueue", "bulk_dequeue"}
    /\ last.ret[1] >= 1

\* C16: the number of free slots is capacity - len(): from every reachable
\* state with len() == L, of capacity - L + 1 consecutive enqueue calls
\* exactly the first capacity - L are accepted and the next is rejected.
C16_FreeSlots ==
    borrow.kind = "none" =>
        LET capacity == Len(data)
            free     == capacity - len(self)
        IN  /\ free >= 0
            /\ \A xs \in [1..free -> Items] :
                  LET r == EnqueueEach(self, xs)
                  IN  /\ r.accepted = free
                      /\ len(r.q) = capacity
                      /\ \A x \in Items : enqueue(r.q, x) = [q |-> r.q, ret |-> Some(x)]
            /\ \A xs \in [1..free + 1 -> Items] :
                  EnqueueEach(self, xs).accepted = free

\* An enqueue was rejected by a full queue of several slots, refilled after
\* the read cursor had passed the end of the storage, with the cursor away
\* from 0.
C16_Witness ==
    /\ last.op = "enqueue"
    /\ last.ret # None
    /\ len(self) = Len(data)
    /\ Len(data) >= 2
    /\ wraps >= 1
    /\ read > 0

\* C17: full and empty are repeatable, non-terminal outcomes.  In every
\* reachable state: a full queue rejects enqueue, and after one dequeue
\* accepts it; an empty queue returns None from dequeue, and after one
\* enqueue(x) returns Some(x); len() dequeue calls lead to the empty state,
\* capacity - len() enqueue calls lead to the full state, and from there one
\* more whole cycle (drain, fill, drain) gives back what was put in.  Since
\* this holds in every reachable state, the cycles never end.  Along every
\* behaviour, a dequeue step right after a rejected enqueue leaves a queue
\* that accepts, and an enqueue step right after a dequeue that returned
\* None leaves a queue whose dequeue returns that item.
C17_FullEmptyRepeatable ==
    /\ [](LET capacity == Len(data)
              xs       == [i \in 1..capacity |-> 1 + (i % 2)]
              emptied  == DequeueTimes(self, len(self)).q
              refilled == EnqueueEach(emptied, xs)
              redrained == DequeueTimes(refilled.q, capacity)
          IN  /\ len(self) = capacity =>
                    /\ \A x \in Items : enqueue(self, x) = [q |-> self, ret |-> Some(x)]
                    /\ \A u \in Items :
                          /\ dequeue(self, u).ret # None
                          /\ \A x \in Items : enqueue(dequeue(self, u).q, x).ret = None
              /\ len(self) = 0 =>
                    /\ \A u \in Items : dequeue(self, u) = [q |-> self, ret |-> None]
                    /\ \A x \in Items : \A u \in Items :
                          dequeue(enqueue(self, x).q, u).ret = Some(x)
              /\ len(emptied) = 0
              /\ \A ys \in [1..capacity - len(self) -> Items] :
                    len(EnqueueEach(self, ys).q) = capacity
              /\ refilled.accepted = capacity
              /\ len(refilled.q) = capacity
              /\ redrained.rets = [i \in 1..capacity |-> Some(xs[i])]
              /\ len(redrained.q) = 0)
    /\ [][/\ (/\ last.op = "enqueue"
              /\ last.ret # None
              /\ last'.op = "dequeue")
                => (/\ last'.ret # None
                    /\ \A x \in Items : enqueue(self', x).ret = None)
          /\ (/\ last.op = "dequeue"
              /\ last.ret = None
              /\ last'.op = "enqueue")
                => (/\ last'.ret = None
                    /\ \A u \in Items : dequeue(self', u).ret = Some(last'.arg[1]))]_vars

\* A queue of several slots is full once more, by an accepted enqueue, after
\* the read cursor has passed the end of the storage twice.
C17_Witness ==
    /\ last.op = "enqueue"
    /\ last.ret = None
    /\ len(self) = Len(data)
    /\ Len(data) >= 2
    /\ wraps >= 2

\* C18: on a queue of capacity >= 1 used according to the protocol no
\* operation aborts: in every reachable state, under either build profile,
\* enqueue, dequeue, expose_slots, expose_items, bulk_enqueue and
\* bulk_dequeue return (full and empty show in the result only), every
\* slice range they compute satisfies start <= end <= capacity, every index
\* is < capacity, and `amount -= n` does not underflow for any n up to the
\* length of the region expose_items returns.
C18_NoOperationAborts ==
    borrow.kind = "none" =>
        /\ \A build \in Builds :
              /\ ~enqueue_panics(self, build)
              /\ ~dequeue_panics(self, build)
              /\ ~expose_slots_panics(self, build)
              /\ ~expose_items_panics(self, build)
              /\ \A n \in 0..UsizeMax :
                    LET buffer == [i \in 1..n |-> Filler]
                    IN  /\ ~bulk_enqueue_panics(self, buffer, build)
                        /\ ~bulk_dequeue_panics(self, buffer, build)
        /\ len(self) # Len(data) =>
              /\ RangeOK(writeable_slice(self), Len(data))
              /\ write_to(self) < Len(data)
        /\ len(self) # 0 =>
              /\ RangeOK(readable_slice(self), Len(data))
              /\ read < Len(data)
              /\ \A n \in 0..RangeLen(readable_slice(self)) :
                    ~consider_dequeued_underflows(self, n)

\* A queue of zero-sized items, of a capacity above half of usize::MAX, that
\* no call has aborted on so far and that holds read + amount > usize::MAX:
\* expose_items (and with it bulk_dequeue) panics under both build
\* profiles, on the overflowing sum where overflow checks are on and on
\* the slice range data[read..write_to] with write_to < read where they
\* are off.
C18_Witness ==
    /\ borrow.kind = "none"
    /\ amount >= 1
    /\ amount <= Len(data)
    /\ read < Len(data)
    /\ add_overflows(read, amount)
    /\ is_data_contiguous_panics(self, "debug")
    /\ ~is_data_contiguous_panics(self, "release")
    /\ slice_panics(self, readable_slice(self))
    /\ \A build \in Builds : expose_items_panics(self, build)

\* C19: after any sequence of protocol-compliant operations len() equals
\* the number of items accepted so far (by enqueue, bulk_enqueue and
\* consider_enqueued) minus the number removed so far (by dequeue,
\* bulk_dequeue and consider_dequeued), and is_empty() is true exactly when
\* len() == 0.
C19_LenIsAcceptedMinusRemoved ==
    /\ len(self) = net
    /\ is_empty(self) <=> len(self) = 0

\* consider_enqueued has just confirmed two or more items on a queue that
\* had given out items before and held some still.
C19_Witness ==
    /\ last.op = "consider_enqueued"
    /\ last.arg[1] >= 2
    /\ wraps >= 1
    /\ net = 3
    /\ len(self) = 3
    /\ ~is_empty(self)

\* C20: in every reachable state the live items occupy exactly the slots
\* (read + k) mod capacity for k in [0, amount), the k-th oldest item being
\* at index (read + k) mod capacity, and each of these slots has been
\* written; so dequeue and expose_items (and bulk_dequeue through it) never
\* read a slot that was never written: their results do not depend on what
\* such a read would produce.
C20_LiveSlotsInitialized ==
    LET capacity == Len(data)
        exposed  == expose_items(self)
    IN  /\ Len(control) = amount
        /\ \A k \in 0..amount - 1 :
              /\ data[((read + k) % capacity) + 1] # Uninit
              /\ data[((read + k) % capacity) + 1] = control[k + 1]
        /\ exposed # None =>
              \A i \in exposed[1].start..exposed[1].end - 1 : data[i + 1] # Uninit
        /\ \A u \in Slot :
              /\ dequeue(self, u) = dequeue(self, Uninit)
              /\ dequeue(self, u).ret # Some(Uninit)
              /\ exposed # None =>
                    slice_assume_init_ref(self, exposed[1], u) = SliceOf(data, exposed[1])
              /\ \A n \in 0..MaxBuf :
                    bulk_dequeue(self, [i \in 1..n |-> Filler], u)
                       = bulk_dequeue(self, [i \in 1..n |-> Filler], Uninit)

\* expose_items has just returned the first run of live items that wrap
\* past the end of the storage: fewer items than the queue holds.
C20_Witness ==
    /\ last.op = "expose_items"
    /\ last.ret # None
    /\ amount >= 2
    /\ read + amount > Len(data)
    /\ Len(last.out) < amount

\* C21: when the queue is not empty, expose_items returns the storage range
\* [read, read + amount) if read + amount < capacity and the tail range
\* [read, capacity) otherwise; its length is min(amount, capacity - read),
\* its contents are the oldest items of the queue in FIFO order, and the
\* remaining amount - (capacity - read) items, if any, lie in the head
\* segment [0, amount - (capacity - read)), outside the returned range.
C21_ExposeItemsRegion ==
    len(self) # 0 =>
        LET capacity == Len(data)
            exposed  == expose_items(self)
            region   == exposed[1]
            shown    == min(amount, capacity - read)
            head     == Range(0, amount - shown)
        IN  /\ exposed # None
            /\ read + amount < capacity => region = Range(read, read + amount)
            /\ ~(read + amount < capacity) => region = Range(read, capacity)
            /\ RangeLen(region) = shown
            /\ SliceOf(data, region) = SubSeq(control, 1, shown)
            /\ SliceOf(data, head) = SubSeq(control, shown + 1, amount)
            /\ RangeLen(head) >= 1 => head.end <= region.start
            /\ last.op = "expose_items" =>
                  last.ret = exposed /\ last.out = SubSeq(control, 1, shown)

\* expose_items has just returned a tail segment of two items while a
\* third live item lies in the head segment.
C21_Witness ==
    /\ last.op = "expose_items"
    /\ last.ret # None
    /\ RangeLen(last.ret[1]) = 2
    /\ last.ret[1].end = Len(data)
    /\ amount = 3

\* C22: when the queue is not full, expose_slots returns the storage range
\* [write_to, capacity) if read + amount < capacity and [write_to, read)
\* otherwise, where write_to = (read + amount) mod capacity; the region
\* starts at the slot the next enqueue would write, and holds no slot of a
\* live item.
C22_ExposeSlotsRegion ==
    len(self) # Len(data) =>
        LET capacity   == Len(data)
            exposed    == expose_slots(self)
            region     == exposed[1]
            next_write == (read + amount) % capacity
        IN  /\ exposed # None
            /\ write_to(self) = next_write
            /\ read + amount < capacity => region = Range(next_write, capacity)
            /\ ~(read + amount < capacity) => region = Range(next_write, read)
            /\ RangeOK(region, capacity)
            /\ RangeLen(region) >= 1
            /\ \A x \in Items :
                  enqueue(self, x).q.data = [data EXCEPT ![region.start + 1] = x]
            /\ \A k \in 0..amount - 1 :
                  ~(/\ region.start <= (read + k) % capacity
                    /\ (read + k) % capacity < region.end)
            /\ last.op = "expose_slots" => last.ret = exposed

\* expose_slots has just returned the two free slots [0, 2) in front of the
\* read cursor of a queue whose live item is the last slot of the storage.
C22_Witness ==
    /\ last.op = "expose_slots"
    /\ last.ret = Some(Range(0, 2))
    /\ read = 2
    /\ amount >= 1

\* C23: two calls cover a wrapped range.  From every reachable state, two
\* successive bulk_dequeue calls with a destination of at least capacity
\* slots leave the queue empty, and two successive bulk_enqueue calls with
\* a source of at least capacity items leave the queue full; one call is
\* enough when the live range (for bulk_dequeue) or the free range (for
\* bulk_enqueue) does not wrap.  The same is stated of two consecutive bulk
\* steps of a behaviour.
C23_TwoCallsCoverWrap ==
    /\ [](LET capacity    == Len(data)
              destination == [i \in 1..capacity |-> Filler]
              d1          == bulk_dequeue(self, destination, Uninit)
              d2          == bulk_dequeue(d1.q, destination, Uninit)
          IN  /\ len(d2.q) = 0
              /\ d1.ret + d2.ret = len(self)
              /\ read + amount <= capacity => len(d1.q) = 0
              /\ \A source \in [1..capacity -> Items] :
                    LET e1 == bulk_enqueue(self, source)
                        e2 == bulk_enqueue(e1.q, SubSeq(source, e1.ret + 1, capacity)
                                                   \o SubSeq(source, 1, e1.ret))
                    IN  /\ len(e2.q) = capacity
                        /\ e1.ret + e2.ret = capacity - len(self)
                        /\ (read = 0 \/ read + amount >= capacity) =>
                              len(e1.q) = capacity)
    /\ [][/\ (/\ last.op = "bulk_dequeue"
              /\ last.arg[1] >= Len(data)
              /\ last'.op = "bulk_dequeue"
              /\ last'.arg[1] >= Len(data))
                => len(self') = 0
          /\ (/\ last.op = "bulk_enqueue"
              /\ last.arg[1] >= Len(data)
              /\ last'.op = "bulk_enqueue"
              /\ last'.arg[1] >= Len(data))
                => len(self') = Len(data)]_vars

\* The second of two bulk_dequeue calls has emptied a queue of several
\* slots: it took the head segment [0, read), after the read cursor had
\* passed the end of the storage.
C23_Witness ==
    /\ last.op = "bulk_dequeue"
    /\ last.arg[1] >= Len(data)
    /\ last.ret[1] >= 1
    /\ read = last.ret[1]
    /\ len(self) = 0
    /\ wraps >= 1
    /\ Len(data) >= 2

\* C24: on an empty queue, wherever the read cursor stands, bulk_enqueue of
\* a source followed at once by bulk_dequeue_uninit into a buffer of at
\* least capacity slots returns the same count both times, the buffer
\* prefix equals the enqueued prefix of the source, and the queue is empty
\* again; stated of the two calls made from every reachable empty state and
\* of every bulk_enqueue step on an empty queue followed by a
\* bulk_dequeue_uninit step.
C24_BulkRoundTrip ==
    /\ [](len(self) = 0 =>
            \A source \in Buffers : \A n \in Len(data)..Len(data) + 1 : \A u \in Slot :
                LET buf == [i \in 1..n |-> Uninit]
                    e   == bulk_enqueue(self, source)
                    d   == bulk_dequeue_uninit(e.q, buf, u)
                IN  /\ e.ret = d.ret
                    /\ SubSeq(d.buffer, 1, d.ret) = SubSeq(source, 1, e.ret)
                    /\ \A i \in d.ret + 1..n : d.buffer[i] = Uninit
                    /\ len(d.q) = 0)
    /\ [][(/\ last.op = "bulk_enqueue"
           /\ last.ret[1] = amount
           /\ last'.op = "bulk_dequeue_uninit"
           /\ last'.arg[1] >= Len(data))
             => (/\ last'.ret = last.ret
                 /\ SubSeq(last'.out, 1, last'.ret[1]) = control
                 /\ len(self') = 0)]_vars

\* bulk_dequeue_uninit into a buffer of capacity slots has just emptied a
\* queue that held two or more items up to the end of the storage, starting
\* at a read cursor away from 0.
C24_Witness ==
    /\ last.op = "bulk_dequeue_uninit"
    /\ last.arg[1] >= Len(data)
    /\ last.ret[1] >= 2
    /\ last.ret[1] < Len(data)
    /\ len(self) = 0
    /\ read = 0

\* C25: draining terminates.  From every reachable state with len() == L,
\* the loop that calls bulk_dequeue with a non-empty destination until it
\* returns 0 ends after at most L calls that return a non-zero count, with
\* the queue empty; and the loop that calls bulk_enqueue with the not yet
\* accepted suffix of a finite source ends, after at most source.len calls
\* that return a non-zero count, with the whole source accepted or the
\* queue full.
C25_BulkLoopsTerminate ==
    /\ \A n \in 1..MaxBuf :
          LET r == BulkDrain(self, n, len(self) + 1)
          IN  /\ r.ended
              /\ r.moved <= len(self)
              /\ len(r.q) = 0
    /\ \A source \in Buffers :
          LET r == BulkFill(self, source, Len(source) + 1)
          IN  /\ r.ended
              /\ r.left = <<>> \/ len(r.q) = Len(data)
              /\ len(r.q) = len(self) + Len(source) - Len(r.left)

\* The call that ends a drain loop: bulk_dequeue with a non-empty
\* destination has just returned 0, on a queue that was filled and emptied
\* across the end of its storage before.
C25_Witness ==
    /\ last.op = "bulk_dequeue"
    /\ last.arg[1] >= 1
    /\ last.ret[1] = 0
    /\ len(self) = 0
    /\ wraps >= 1
    /\ read > 0

\* C26, as stated: consider_enqueued(n) performs no validation: for every n
\* and every state it returns, having added exactly n to amount and left
\* read and the storage unchanged.
C26_ConsiderEnqueuedAsStated ==
    \A n \in 0..UsizeMax :
        LET q == consider_enqueued(self, n)
        IN  /\ \A build \in Builds : ~consider_enqueued_panics(self, n, build)
            /\ q.amount = amount + n
            /\ q.read = read
            /\ q.data = data

\* C26, amended: consider_enqueued(n) never compares n to the region last
\* exposed or to the capacity, and leaves read and the storage unchanged;
\* for every n with amount + n <= usize::MAX it returns, having added
\* exactly n to amount (so amount may exceed the capacity: keeping
\* amount <= capacity is the caller's obligation).  For a larger n the
\* addition overflows: the call panics where overflow checks are on, and
\* where they are off amount becomes amount + n - (usize::MAX + 1).
C26_ConsiderEnqueuedUnchecked ==
    \A n \in 0..UsizeMax :
        LET q == consider_enqueued(self, n)
        IN  /\ q.read = read
            /\ q.data = data
            /\ q.kind = kind
            /\ amount + n <= UsizeMax =>
                  /\ \A build \in Builds : ~consider_enqueued_panics(self, n, build)
                  /\ q.amount = amount + n
            /\ amount + n > UsizeMax =>
                  /\ consider_enqueued_panics(self, n, "debug")
                  /\ ~consider_enqueued_panics(self, n, "release")
                  /\ q.amount = amount + n - (UsizeMax + 1)

\* consider_enqueued(n) has returned with n above the number of free slots:
\* amount is now larger than the capacity.
C26_Witness ==
    /\ last.op = "consider_enqueued"
    /\ last.arg[1] >= 2
    /\ amount > Len(data)
    /\ net = amount

\* C27: capacity() is constant.  No step of a Fixed queue changes what
\* capacity() returns, so after any sequence of operations it still returns
\* the capacity the queue was created with; and in every reachable state
\* every operation returns a queue of the same capacity: nothing grows,
\* shrinks or reallocates the storage.
C27_CapacityConstant ==
    /\ [][kind = "Fixed" =>
             /\ kind' = "Fixed"
             /\ Fixed_capacity(self') = Fixed_capacity(self)]_vars
    /\ [](kind = "Fixed" =>
            LET capacity == Fixed_capacity(self)
                exposed  == expose_items(self)
                slots    == expose_slots(self)
            IN  /\ capacity = Len(data)
                /\ Fixed_capacity(Fixed_new(capacity)) = capacity
                /\ \A x \in Items : Fixed_capacity(enqueue(self, x).q) = capacity
                /\ \A u \in Items : Fixed_capacity(dequeue(self, u).q) = capacity
                /\ slots # None =>
                      \A n \in 0..RangeLen(slots[1]) :
                          Fixed_capacity(consider_enqueued(self, n)) = capacity
                /\ exposed # None =>
                      \A n \in 0..RangeLen(exposed[1]) :
                          Fixed_capacity(consider_dequeued(self, n)) = capacity
                /\ \A buffer \in Buffers :
                      /\ Fixed_capacity(bulk_enqueue(self, buffer).q) = capacity
                      /\ Fixed_capacity(bulk_dequeue(self, buffer, Uninit).q) = capacity)

\* A full Fixed queue, after its read cursor has passed the end of the
\* storage twice, has just turned down a bulk_enqueue: its capacity is
\* still its number of slots, all of them live.
C27_Witness ==
    /\ kind = "Fixed"
    /\ last.op = "bulk_enqueue"
    /\ last.arg[1] >= 1
    /\ last.ret[1] = 0
    /\ Fixed_capacity(self) = len(self)
    /\ wraps >= 2

\* C28: exposing is side-effect free.  A step of expose_slots or
\* expose_items leaves storage, read, amount and the live items unchanged,
\* and calling it again right away returns the same region; len and
\* is_empty are computed from the state without changing it;
\* consider_enqueued(0), consider_dequeued(0), bulk_enqueue of an empty
\* source and bulk_dequeue into an empty destination leave the queue as it
\* is.
C28_ExposingIsSideEffectFree ==
    /\ [][last'.op \in {"expose_slots", "expose_items"} =>
             /\ self' = self
             /\ control' = control
             /\ len(self') = len(self)
             /\ is_empty(self') = is_empty(self)
             /\ Drain(self') = Drain(self)]_vars
    /\ [](/\ last.op = "expose_slots" => expose_slots(self) = last.ret
          /\ last.op = "expose_items" => expose_items(self) = last.ret
          /\ consider_enqueued(self, 0) = self
          /\ consider_dequeued(self, 0) = self
          /\ bulk_enqueue(self, <<>>) = [q |-> self, ret |-> 0]
          /\ \A u \in Slot :
                bulk_dequeue(self, <<>>, u) = [q |-> self, ret |-> 0, buffer |-> <<>>])

\* expose_slots has just returned two or more free slots behind the live
\* items of a queue whose read cursor is at 0, and nothing was written yet.
C28_Witness ==
    /\ last.op = "expose_slots"
    /\ last.ret # None
    /\ RangeLen(last.ret[1]) >= 2
    /\ borrow.kind = "slots"
    /\ borrow.written = 0
    /\ read = 0
    /\ amount >= 1

\* C29: enqueue-side operations never disturb existing items and
\* dequeue-side operations never disturb remaining items.  An accepted
\* enqueue, and a bulk_enqueue, leave read unchanged, write only slots that
\* held no live item, and leave the live items and their order as they
\* were (the new items follow them); dequeue and bulk_dequeue leave the
\* storage, and so the values and order of the items that remain,
\* unchanged; bulk_dequeue returning k leaves destination[k..] unchanged.
C29_OperationsKeepOtherItems ==
    LET capacity == Len(data)
        Live(i)  == \E k \in 0..amount - 1 : (read + k) % capacity = i
        Free(q)  == \A i \in 0..capacity - 1 :
                        q.data[i + 1] # data[i + 1] => ~Live(i)
        before   == Drain(self)
    IN  /\ \A x \in Items :
              LET e == enqueue(self, x)
              IN  e.ret = None =>
                     /\ e.q.read = read
                     /\ Free(e.q)
                     /\ Drain(e.q) = before \o <<x>>
        /\ \A source \in Buffers :
              LET b == bulk_enqueue(self, source)
              IN  /\ b.q.read = read
                  /\ Free(b.q)
                  /\ Drain(b.q) = before \o SubSeq(source, 1, b.ret)
        /\ \A u \in Slot :
              LET d == dequeue(self, u)
              IN  /\ d.q.data = data
                  /\ d.ret # None => Drain(d.q) = Tail(before)
        /\ \A n \in 0..MaxBuf : \A u \in Slot :
              LET destination == [i \in 1..n |-> Filler]
                  b           == bulk_dequeue(self, destination, u)
              IN  /\ b.q.data = data
                  /\ Drain(b.q) = SubSeq(before, b.ret + 1, Len(before))
                  /\ Len(b.buffer) = n
                  /\ \A i \in b.ret + 1..n : b.buffer[i] = destination[i]

\* bulk_dequeue has just filled the front of a longer destination from the
\* tail segment of a wrapped queue: the rest of the destination still holds
\* its filler, and the head segment still holds the remaining items.
C29_Witness ==
    /\ last.op = "bulk_dequeue"
    /\ last.ret[1] >= 1
    /\ last.ret[1] < last.arg[1]
    /\ last.out[last.arg[1]] = Filler
    /\ read = 0
    /\ amount >= 1
    /\ Drain(self) = control

\* C30: with capacity 0 (Fixed::new(0), Static<T, 0>) every enqueue returns
\* Some(item), every dequeue, expose_slots and expose_items returns None,
\* bulk_enqueue and bulk_dequeue return 0 and len() is 0; the queue never
\* changes, and none of these calls reaches a remainder by the capacity
\* (or any other panic), under either build profile.
C30_CapacityZero ==
    Len(data) = 0 =>
        /\ read = 0
        /\ amount = 0
        /\ len(self) = 0
        /\ is_empty(self)
        /\ \A x \in Items : enqueue(self, x) = [q |-> self, ret |-> Some(x)]
        /\ \A u \in Slot : dequeue(self, u) = [q |-> self, ret |-> None]
        /\ expose_slots(self) = None
        /\ expose_items(self) = None
        /\ \A source \in Buffers : bulk_enqueue(self, source) = [q |-> self, ret |-> 0]
        /\ \A n \in 0..MaxBuf : \A u \in Slot :
              LET destination == [i \in 1..n |-> Filler]
              IN  /\ bulk_dequeue(self, destination, u)
                        = [q |-> self, ret |-> 0, buffer |-> destination]
                  /\ bulk_dequeue_uninit(self, destination, u)
                        = [q |-> self, ret |-> 0, buffer |-> destination]
        /\ \A build \in Builds :
              /\ ~enqueue_panics(self, build)
              /\ ~dequeue_panics(self, build)
              /\ ~expose_slots_panics(self, build)
              /\ ~expose_items_panics(self, build)
              /\ \A source \in Buffers :
                    /\ ~bulk_enqueue_panics(self, source, build)
                    /\ ~bulk_dequeue_panics(self, source, build)
              /\ write_to_panics(self, build)
        /\ last.op = "enqueue" => last.ret = Some(last.arg[1])
        /\ last.op \in {"dequeue", "expose_slots", "expose_items"} => last.ret = None
        /\ last.op \in {"bulk_enqueue", "bulk_dequeue"} => last.ret = <<0>>

\* A queue of capacity 0 has just handed an item back from enqueue.
C30_Witness ==
    /\ Len(data) = 0
    /\ last.op = "enqueue"
    /\ last.ret = Some(last.arg[1])
    /\ len(self) = 0

====
